---- MODULE Spec2Model ----
(***************************************************************************)
(* The HTTPProxy source of external-dns (source/httpproxy.go): one call of *)
(* httpProxySource.Endpoints turns the listed HTTPProxy resources into     *)
(* endpoints.  The state is the source's configuration, the informer's     *)
(* snapshot, the load-balancer service as the kube client serves it, and   *)
(* the position and locals of the running Endpoints call.                  *)
(*                                                                         *)
(* Strings that the code cuts up (hostnames, the rendered template) are    *)
(* sequences of one-character strings.  Targets are numbers: target n is   *)
(* the n-th string of a fixed pool in Go's string order, so that           *)
(* sort.Sort(ep.Targets) is the numeric sort.                              *)
(***************************************************************************)
EXTENDS Integers, Sequences, FiniteSets, TLC

VARIABLES
    combineFQDNAnnotation,      \* sc.combineFQDNAnnotation
    ignoreHostnameAnnotation,   \* sc.ignoreHostnameAnnotation
    fqdnTemplate,               \* TRUE iff sc.fqdnTemplate != nil
    hps,                        \* the listed (and annotation-filtered) HTTPProxies
    svc,                        \* the load-balancer service as last served by Get
    pc,                         \* position of the Endpoints call
    i,                          \* index of the loop over hps
    hpEndpoints,                \* local hpEndpoints of the loop body
    endpoints,                  \* local endpoints of Endpoints
    ret,                        \* the endpoint list the last call returned
    err,                        \* the error the last call returned
    log,                        \* history: service lookups and template renders of the call
    passNo,                     \* number of Endpoints calls started
    prev                        \* result of the call before the last one

vars == <<combineFQDNAnnotation, ignoreHostnameAnnotation, fqdnTemplate, hps, svc,
          pc, i, hpEndpoints, endpoints, ret, err, log, passNo, prev>>

config == <<combineFQDNAnnotation, ignoreHostnameAnnotation, fqdnTemplate, hps>>

(******************************** bounds ***********************************)
MaxRes == 2          \* resources in the snapshot
MaxResFixed == 1     \* resources in the snapshot of repeated calls
MaxPasses == 2       \* Endpoints calls in a behaviour
MaxIngress == 1      \* ingress entries of the load-balancer service
MaxIngressFixed == 2 \* ingress entries of the service of repeated calls
MaxRenderLen == 3    \* characters of a rendered template

(***************************** value pools *********************************)
Empty == 0                      \* the empty string, as a target
IPTargets == {1, 2}             \* IP literals, e.g. "10.0.0.1" < "10.0.0.2"
NameTargets == {3}              \* hostnames, e.g. "lb.example.com"
Namespace == "ns"
NoError == "nil"
TemplateError == "failed to apply template"
controllerAnnotationValue == "dns-controller"
OtherController == "other-controller"
NoAnnotation == "absent"
RenderAlphabet == {"t", ".", ",", " "}

RECURSIVE StringsUpTo(_)
StringsUpTo(n) ==
    IF n = 0 THEN {<<>>}
    ELSE LET shorter == StringsUpTo(n - 1)
         IN shorter \cup {Append(s, c) : s \in shorter, c \in RenderAlphabet}

\* the name of the k-th resource as a character of hostnames
NameChars == <<"1", "2", "3", "4">>

NameChar(k) == NameChars[k]

\* "{{.Name}}"-style template output: the texts rendered for the resource named n
NameTemplate == [n \in DOMAIN NameChars |-> {<<"t", NameChar(n)>>}]

\* any text of the alphabet, whatever the resource
AnyText == [n \in DOMAIN NameChars |-> StringsUpTo(MaxRenderLen)]

RECURSIVE SeqsUpTo(_, _)
SeqsUpTo(S, n) ==
    IF n = 0 THEN {<<>>}
    ELSE LET shorter == SeqsUpTo(S, n - 1)
         IN shorter \cup {Append(s, x) : s \in shorter, x \in S}

Range(s) == {s[k] : k \in 1..Len(s)}

Count(s, x) == Cardinality({k \in 1..Len(s) : s[k] = x})

\* the orders in which the same entries can be listed
Reorderings(s) ==
    {t \in [1..Len(s) -> Range(s)] : \A x \in Range(s) : Count(t, x) = Count(s, x)}

(****************************** data model *********************************)
\* corev1.LoadBalancerIngress: IP and Hostname, either possibly empty
IngressEntries == {[ip |-> 2, hostname |-> Empty], [ip |-> 1, hostname |-> 3]}

\* what Services(ns).Get(name) can answer: an error, or the service's ingress list
ServiceStates(n) ==
    {[failed |-> TRUE, ingress |-> <<>>]}
        \cup {[failed |-> FALSE, ingress |-> s] : s \in SeqsUpTo(IngressEntries, n)}

\* hp.Spec.VirtualHost of the resource named n: nil, or a virtual host with its Fqdn
VirtualHosts(n) ==
    {[isNil |-> TRUE, fqdn |-> <<>>], [isNil |-> FALSE, fqdn |-> <<>>],
     [isNil |-> FALSE, fqdn |-> <<"a", NameChar(n)>>]}

\* what executing the template on a resource gives: an error, or the text
RenderResults(texts) ==
    {[failed |-> TRUE, out |-> <<>>]} \cup {[failed |-> FALSE, out |-> t] : t \in texts}

\* an HTTPProxy named n, with the fields and annotations Endpoints reads
HTTPProxies(n, texts) ==
    [namespace : {Namespace}, name : {n},
     status : {"valid", "invalid"},
     controller : {NoAnnotation, controllerAnnotationValue, OtherController},
     virtualHost : VirtualHosts(n),
     hostnames : {<<>>, << <<"h", NameChar(n)>> >>},
     targets : {<<>>, <<3, 2, 1>>},
     render : RenderResults(texts[n])]

\* snapshots of k resources; the k-th is named k
RECURSIVE Snapshots(_, _)
Snapshots(k, texts) ==
    IF k = 0 THEN {<<>>}
    ELSE {Append(s, hp) : s \in Snapshots(k - 1, texts), hp \in HTTPProxies(k, texts)}

NoResult == [isNil |-> TRUE, list |-> <<>>]

(************************* helpers of package source ***********************)
\* suitableType: an IP literal makes an A record, anything else a CNAME
suitableType(t) == IF t \in IPTargets THEN "A" ELSE "CNAME"

\* endpoint.NewEndpointWithTTL: a fresh endpoint with an empty label map
NewEndpoint(hostname, recordType, targets) ==
    [dnsName |-> hostname, recordType |-> recordType, targets |-> targets, resource |-> <<>>]

\* endpointsForHostname: one endpoint per target class that has targets
endpointsForHostname(hostname, targets) ==
    LET aTargets == SelectSeq(targets, LAMBDA t : suitableType(t) = "A")
        cnameTargets == SelectSeq(targets, LAMBDA t : suitableType(t) # "A")
    IN (IF Len(aTargets) > 0 THEN <<NewEndpoint(hostname, "A", aTargets)>> ELSE <<>>)
       \o (IF Len(cnameTargets) > 0 THEN <<NewEndpoint(hostname, "CNAME", cnameTargets)>> ELSE <<>>)

\* getTargetsFromTargetAnnotation: the annotation's targets in order, none when absent
getTargetsFromTargetAnnotation(hp) == hp.targets

\* getHostnamesFromAnnotations: the hostnames of the hostname annotation
getHostnamesFromAnnotations(hp) == hp.hostnames

RECURSIVE Insert(_, _)
Insert(t, sorted) ==
    IF sorted = <<>> THEN <<t>>
    ELSE IF t <= Head(sorted) THEN <<t>> \o sorted
    ELSE <<Head(sorted)>> \o Insert(t, Tail(sorted))

RECURSIVE SortTargets(_)
\* sort.Sort(ep.Targets)
SortTargets(targets) ==
    IF targets = <<>> THEN <<>> ELSE Insert(Head(targets), SortTargets(Tail(targets)))

RECURSIVE Concat(_)
\* append(endpoints, more...) over a list of lists
Concat(lists) == IF lists = <<>> THEN <<>> ELSE Head(lists) \o Concat(Tail(lists))

(***************************** httpproxy.go ********************************)
\* a gate that forgets the status
EligibleAnyStatus(hp) ==
    ~(hp.controller # NoAnnotation /\ hp.controller # controllerAnnotationValue)

\* the gate at the top of the loop body
Eligible(hp) ==
    /\ ~(hp.controller # NoAnnotation /\ hp.controller # controllerAnnotationValue)
    /\ hp.status = "valid"

\* targetsFromContourLoadBalancer: a failed Get is logged and gives no targets
targetsFromContourLoadBalancer(s) ==
    IF s.failed THEN <<>>
    ELSE Concat([k \in 1..Len(s.ingress) |->
                    (IF s.ingress[k].ip # Empty THEN <<s.ingress[k].ip>> ELSE <<>>)
                    \o (IF s.ingress[k].hostname # Empty THEN <<s.ingress[k].hostname>>
                        ELSE <<>>)])

\* a lookup whatever the annotation says
NeedsLookupAlways(hp) == TRUE

\* len(targets) == 0 after getTargetsFromTargetAnnotation: the service is looked up
NeedsLookup(hp) == Len(getTargetsFromTargetAnnotation(hp)) = 0

\* the targets both endpointsFromHttpProxy and endpointsFromTemplate use
ResolveTargets(hp, s) ==
    IF NeedsLookup(hp) THEN targetsFromContourLoadBalancer(s)
    ELSE getTargetsFromTargetAnnotation(hp)

\* endpointsFromHttpProxy, given the service as Get serves it
endpointsFromHttpProxy(hp, s) ==
    IF hp.status # "valid" THEN <<>>
    ELSE LET targets == ResolveTargets(hp, s)
         IN (IF ~hp.virtualHost.isNil /\ hp.virtualHost.fqdn # <<>>
             THEN endpointsForHostname(hp.virtualHost.fqdn, targets) ELSE <<>>)
            \o (IF ~ignoreHostnameAnnotation
                THEN LET hostnameList == getHostnamesFromAnnotations(hp)
                     IN Concat([k \in 1..Len(hostnameList) |->
                                    endpointsForHostname(hostnameList[k], targets)])
                ELSE <<>>)

\* strings.Replace(s, " ", "", -1)
RemoveSpaces(s) == SelectSeq(s, LAMBDA c : c # " ")

RECURSIVE Split(_)
\* strings.Split(s, ","): "" gives one empty string
Split(s) ==
    IF \A k \in 1..Len(s) : s[k] # "," THEN <<s>>
    ELSE LET k == CHOOSE k \in 1..Len(s) : s[k] = "," /\ \A j \in 1..(k - 1) : s[j] # ","
         IN <<SubSeq(s, 1, k - 1)>> \o Split(SubSeq(s, k + 1, Len(s)))

\* strings.TrimSuffix(hostname, ".")
TrimSuffix(hostname) ==
    IF Len(hostname) > 0 /\ hostname[Len(hostname)] = "."
    THEN SubSeq(hostname, 1, Len(hostname) - 1) ELSE hostname

\* the hostnames endpointsFromTemplate makes of the rendered text
TemplateHostnames(text) ==
    LET hostnameList == Split(RemoveSpaces(text))
    IN [k \in 1..Len(hostnameList) |-> TrimSuffix(hostnameList[k])]

\* endpointsFromTemplate after a successful Execute, given the service as Get serves it
endpointsFromTemplate(hp, s) ==
    LET targets == ResolveTargets(hp, s)
        hostnameList == TemplateHostnames(hp.render.out)
    IN Concat([k \in 1..Len(hostnameList) |-> endpointsForHostname(hostnameList[k], targets)])

\* the condition under which Endpoints applies the template
TemplateApplies(eps) == (combineFQDNAnnotation \/ Len(eps) = 0) /\ fqdnTemplate

\* hpEndpoints after endpointsFromTemplate returned tmplEndpoints
CombineEndpoints(eps, tmplEndpoints) ==
    IF combineFQDNAnnotation THEN eps \o tmplEndpoints ELSE tmplEndpoints

\* a label that names the first listed resource
setResourceLabelFirst(hp, eps) ==
    [k \in 1..Len(eps) |->
        [eps[k] EXCEPT !.resource = <<"hp", hps[1].namespace, hps[1].name>>]]

\* setResourceLabel
setResourceLabel(hp, eps) ==
    [k \in 1..Len(eps) |-> [eps[k] EXCEPT !.resource = <<"hp", hp.namespace, hp.name>>]]

\* a return without the final sort
SortNothing(eps) == eps

\* the final loop of Endpoints: every endpoint's targets sorted
SortAll(eps) == [k \in 1..Len(eps) |-> [eps[k] EXCEPT !.targets = SortTargets(eps[k].targets)]]

LookupEvent(path, hp, s) ==
    [op |-> "lookup", res |-> hp.name, path |-> path, ok |-> ~s.failed,
     targets |-> targetsFromContourLoadBalancer(s)]

RenderEvent(hp) ==
    [op |-> "render", res |-> hp.name, path |-> "template", ok |-> ~hp.render.failed,
     targets |-> <<>>]

\* the service Get is served from: any state of it, or its entries in any order
Served(changing) ==
    IF changing THEN ServiceStates(MaxIngress)
    ELSE {[svc EXCEPT !.ingress = o] : o \in Reorderings(svc.ingress)}

(******************************** actions **********************************)
\* Endpoints is called: the resources are listed and the loop starts
List ==
    /\ pc = "idle"
    /\ passNo < MaxPasses
    /\ passNo' = passNo + 1
    /\ prev' = [ret |-> ret, err |-> err, log |-> log]
    /\ endpoints' = <<>>
    /\ hpEndpoints' = <<>>
    /\ i' = 1
    /\ log' = <<>>
    /\ ret' = NoResult
    /\ err' = NoError
    /\ pc' = "loop"
    /\ UNCHANGED <<config, svc>>

\* the gate skips a resource of another controller, or one that is not valid
Skip ==
    /\ pc = "loop"
    /\ i <= Len(hps)
    /\ ~Eligible(hps[i])
    /\ i' = i + 1
    /\ UNCHANGED <<config, svc, pc, hpEndpoints, endpoints, ret, err, log, passNo, prev>>

\* endpointsFromHttpProxy on an eligible resource, then the test for the template
FromHttpProxy(changing) ==
    /\ pc = "loop"
    /\ i <= Len(hps)
    /\ Eligible(hps[i])
    /\ \E s \in Served(changing) :
        LET hp == hps[i]
            looked == hp.status = "valid" /\ NeedsLookup(hp)
            eps == endpointsFromHttpProxy(hp, s)
        IN /\ svc' = IF looked THEN s ELSE svc
           /\ (~looked => s = svc)
           /\ log' = IF looked THEN Append(log, LookupEvent("native", hp, s)) ELSE log
           /\ hpEndpoints' = eps
           /\ pc' = IF TemplateApplies(eps) THEN "template" ELSE "collect"
    /\ UNCHANGED <<config, i, endpoints, ret, err, passNo, prev>>

\* a return of the endpoints assembled so far along with the error
ReturnPartial(e) ==
    /\ ret' = [isNil |-> FALSE, list |-> endpoints]
    /\ err' = e
    /\ pc' = "idle"

\* Endpoints returns nil and the error
ReturnError(e) ==
    /\ ret' = NoResult
    /\ err' = e
    /\ pc' = "idle"

\* endpointsFromTemplate fails in Execute: Endpoints returns the error
TemplateFails ==
    /\ pc = "template"
    /\ hps[i].render.failed
    /\ log' = Append(log, RenderEvent(hps[i]))
    /\ ReturnError(TemplateError)
    /\ UNCHANGED <<config, svc, i, hpEndpoints, endpoints, passNo, prev>>

\* endpointsFromTemplate succeeds: its endpoints are appended or replace hpEndpoints
FromTemplate(changing) ==
    /\ pc = "template"
    /\ ~hps[i].render.failed
    /\ \E s \in Served(changing) :
        LET hp == hps[i]
            looked == NeedsLookup(hp)
            rendered == Append(log, RenderEvent(hp))
        IN /\ svc' = IF looked THEN s ELSE svc
           /\ (~looked => s = svc)
           /\ log' = IF looked THEN Append(rendered, LookupEvent("template", hp, s))
                     ELSE rendered
           /\ hpEndpoints' = CombineEndpoints(hpEndpoints, endpointsFromTemplate(hp, s))
    /\ pc' = "collect"
    /\ UNCHANGED <<config, i, endpoints, ret, err, passNo, prev>>

\* the end of the loop body: nothing generated, or label and append
Collect ==
    /\ pc = "collect"
    /\ endpoints' = IF Len(hpEndpoints) = 0 THEN endpoints
                    ELSE endpoints \o setResourceLabel(hps[i], hpEndpoints)
    /\ hpEndpoints' = <<>>
    /\ i' = i + 1
    /\ pc' = "loop"
    /\ UNCHANGED <<config, svc, ret, err, log, passNo, prev>>

\* after the loop: the targets are sorted and the endpoints returned
Return ==
    /\ pc = "loop"
    /\ i > Len(hps)
    /\ ret' = [isNil |-> FALSE, list |-> SortAll(endpoints)]
    /\ err' = NoError
    /\ pc' = "idle"
    /\ UNCHANGED <<config, svc, i, hpEndpoints, endpoints, log, passNo, prev>>

(***************************** specifications ******************************)
InitWith(snapshots, services) ==
    /\ combineFQDNAnnotation \in BOOLEAN
    /\ ignoreHostnameAnnotation \in BOOLEAN
    /\ fqdnTemplate \in BOOLEAN
    /\ hps \in snapshots
    /\ svc \in services
    /\ pc = "idle"
    /\ i = 1
    /\ hpEndpoints = <<>>
    /\ endpoints = <<>>
    /\ ret = NoResult
    /\ err = NoError
    /\ log = <<>>
    /\ passNo = 0
    /\ prev = [ret |-> NoResult, err |-> NoError, log |-> <<>>]

NoIngress == [failed |-> FALSE, ingress |-> <<>>]

Init == InitWith(UNION {Snapshots(k, NameTemplate) : k \in 0..MaxRes}, {NoIngress})

\* the first call of Endpoints
FirstList == passNo = 0 /\ List

\* one call of Endpoints; the service may change between any two lookups
Next ==
    \/ FirstList
    \/ Skip
    \/ FromHttpProxy(TRUE)
    \/ TemplateFails
    \/ FromTemplate(TRUE)
    \/ Collect
    \/ Return

Spec == Init /\ [][Next]_vars

\* repeated calls of Endpoints on a service whose entries stay the same, in any order
InitFixed == InitWith(UNION {Snapshots(k, NameTemplate) : k \in 0..MaxResFixed},
                      ServiceStates(MaxIngressFixed))

NextFixed ==
    \/ List
    \/ Skip
    \/ FromHttpProxy(FALSE)
    \/ TemplateFails
    \/ FromTemplate(FALSE)
    \/ Collect
    \/ Return

SpecFixed == InitFixed /\ [][NextFixed]_vars

\* one call of Endpoints on one resource, for every text the template can render
InitRender == InitWith(Snapshots(1, AnyText), {NoIngress})

SpecRender == InitRender /\ [][Next]_vars

(********************************* claims ***********************************)
\* a call of Endpoints has returned
Done == pc = "idle" /\ passNo > 0

Resources == 1..Len(hps)

\* "hp/<namespace>/<name>" of the k-th resource
Label(k) == <<"hp", hps[k].namespace, hps[k].name>>

\* every hostname of the k-th resource carries the resource's name character
OwnedBy(ep, k) == NameChar(k) \in Range(ep.dnsName)

\* hostnames of the virtual host and of the hostname annotation start with a or h,
\* hostnames of the template with t
IsNative(ep) == ep.dnsName # <<>> /\ ep.dnsName[1] \in {"a", "h"}

IsTemplated(ep) == ep.dnsName # <<>> /\ ep.dnsName[1] = "t"

Returned == {ret.list[n] : n \in 1..Len(ret.list)}

Assembled == Returned \cup Range(endpoints) \cup Range(hpEndpoints)

Events(op, k) == {n \in 1..Len(log) : log[n].op = op /\ log[n].res = k}

WrongController(hp) ==
    hp.controller # NoAnnotation /\ hp.controller # controllerAnnotationValue

Gated(hp) == hp.status # "valid" \/ WrongController(hp)

HasFqdn(hp) == ~hp.virtualHost.isNil /\ hp.virtualHost.fqdn # <<>>

IsSorted(s) == \A m, n \in 1..Len(s) : m < n => s[m] <= s[n]

SameElements(s, t) == Len(s) = Len(t) /\ \A x \in Range(s) \cup Range(t) : Count(s, x) = Count(t, x)

\* the annotation's targets of one record type, in the annotation's order
AnnotationTargets(k, recordType) ==
    SelectSeq(hps[k].targets, LAMBDA t : suitableType(t) = recordType)

\* C1: a resource that is not valid, or that carries another controller's annotation,
\* is skipped: at no point of the call is there an endpoint with one of its hostnames
\* or its label, and neither a service lookup nor a template render is made for it
\* (so it cannot make the call fail).
C1_GatedResourceYieldsNothing ==
    \A k \in Resources :
        Gated(hps[k]) =>
            /\ Events("lookup", k) = {} /\ Events("render", k) = {}
            /\ \A ep \in Assembled : ~OwnedBy(ep, k) /\ ep.resource # Label(k)

C1_Witness ==
    /\ Done /\ Len(hps) = 2 /\ fqdnTemplate /\ combineFQDNAnnotation
    /\ Gated(hps[1]) /\ HasFqdn(hps[1]) /\ hps[1].targets # <<>> /\ hps[1].render.failed
    /\ err = NoError /\ ret.list # <<>>

\* C2: every endpoint a call returns, whether its hostname comes from the virtual
\* host, the hostname annotation or the template, is labelled "hp/<namespace>/<name>"
\* of the resource it was generated from.
C2_ResourceLabel ==
    \A ep \in Returned : \E k \in Resources : OwnedBy(ep, k) /\ ep.resource = Label(k)

C2_Witness ==
    /\ Done /\ Len(hps) = 2
    /\ \E e1, e2, e3, e4 \in Returned :
        /\ e1.dnsName[1] = "a" /\ e2.dnsName[1] = "h" /\ e3.dnsName[1] = "t"
        /\ e1.resource = Label(1) /\ e4.resource = Label(2)

\* C3 as stated: for a resource with a non-empty target annotation the returned
\* endpoints carry the annotation's targets in the annotation's order, and the service
\* is never looked up for it.
C3_AnnotationOrder ==
    Done =>
        \A k \in Resources :
            hps[k].targets # <<>> =>
                /\ Events("lookup", k) = {}
                /\ \A ep \in Returned :
                    OwnedBy(ep, k) => ep.targets = AnnotationTargets(k, ep.recordType)

\* C3 as amended: for a resource with a non-empty target annotation every returned
\* endpoint carries the annotation's targets of its record type, each as often as the
\* annotation names it, in sorted order, and the service is never looked up for it,
\* neither by endpointsFromHttpProxy nor by endpointsFromTemplate.
C3_AnnotationTargetsSorted ==
    \A k \in Resources :
        hps[k].targets # <<>> =>
            /\ Events("lookup", k) = {}
            /\ Done =>
                \A ep \in Returned :
                    OwnedBy(ep, k) =>
                        /\ IsSorted(ep.targets)
                        /\ SameElements(ep.targets, AnnotationTargets(k, ep.recordType))

C3_Witness ==
    /\ Done
    /\ \E k \in Resources :
        /\ hps[k].targets # <<>> /\ ~IsSorted(hps[k].targets)
        /\ Events("render", k) # {}
        /\ \E e1, e2 \in Returned :
            /\ OwnedBy(e1, k) /\ IsNative(e1) /\ Len(e1.targets) > 1
            /\ OwnedBy(e2, k) /\ IsTemplated(e2) /\ Len(e2.targets) > 1

\* C4 as stated: with combine mode off and a template configured, the template is
\* never executed for an eligible resource whose virtual host has a non-empty Fqdn.
C4_TemplateNotEvaluated ==
    (~combineFQDNAnnotation /\ fqdnTemplate) =>
        \A k \in Resources :
            (~Gated(hps[k]) /\ HasFqdn(hps[k])) => Events("render", k) = {}

\* C5: once the template fails to render for a resource, nothing more is processed:
\* the call has returned the template error and a nil list, whatever was assembled
\* for earlier resources, and the loop never went past that resource.
C5_RenderErrorAborts ==
    \A n \in 1..Len(log) :
        (log[n].op = "render" /\ ~log[n].ok) =>
            /\ n = Len(log)
            /\ pc = "idle" /\ err = TemplateError /\ ret = NoResult
            /\ i = log[n].res

C5_Witness ==
    /\ Done /\ err = TemplateError /\ ret.isNil
    /\ endpoints # <<>>
    /\ log # <<>> /\ ~log[Len(log)].ok /\ log[Len(log)].op = "render"

\* the template was executed for the k-th resource only because its lookup failed:
\* combine mode is off and the resource has a hostname of its own
RenderInducedByLookup(k) ==
    /\ ~combineFQDNAnnotation
    /\ HasFqdn(hps[k])
    /\ \E n \in Events("lookup", k) : log[n].path = "native" /\ ~log[n].ok

\* C6 as stated: a failed service lookup never makes the call fail.  In a call where
\* a lookup failed and no template failed to render for a reason of its own, no
\* error is returned and every other eligible resource with a non-empty target
\* annotation and a virtual-host Fqdn has endpoints in the returned list.
C6_LookupFailureIsolated ==
    ( /\ Done
      /\ \E n \in 1..Len(log) : log[n].op = "lookup" /\ ~log[n].ok
      /\ \A n \in 1..Len(log) :
            (log[n].op = "render" /\ ~log[n].ok) => RenderInducedByLookup(log[n].res) )
    => /\ err = NoError
       /\ \A k \in Resources :
            (~Gated(hps[k]) /\ hps[k].targets # <<>> /\ HasFqdn(hps[k])) =>
                \E ep \in Returned : OwnedBy(ep, k)

\* C7: on a service whose ingress entries stay the same while their order changes
\* from one lookup to the next, every returned endpoint's targets are sorted, and a
\* second call returns exactly what the first call returned.
C7_Deterministic ==
    Done =>
        /\ \A ep \in Returned : IsSorted(ep.targets)
        /\ passNo > 1 => (ret = prev.ret /\ err = prev.err)

C7_Witness ==
    /\ Done /\ passNo > 1
    /\ log # prev.log
    /\ \E ep \in Returned : Len(ep.targets) > 1 /\ Events("lookup", 1) # {}

\* C8 as stated: no endpoint made from the rendered template has a hostname that
\* ends with ".".
C8_NoTrailingSeparator ==
    \A ep \in Returned :
        (Range(ep.dnsName) \subseteq RenderAlphabet /\ ep.dnsName # <<>>) =>
            ep.dnsName[Len(ep.dnsName)] # "."

\* C9 as stated: in one call the service is looked up at most once for a resource.
C9_OneLookupPerResource ==
    \A k \in Resources : Cardinality(Events("lookup", k)) <= 1

TargetsOf(eps) == UNION {Range(ep.targets) : ep \in eps}

\* C10 as stated: in combine mode the endpoints made from the template carry the
\* same set of targets as the endpoints made from the resource's own hostnames.
C10_SameTargets ==
    (Done /\ combineFQDNAnnotation) =>
        \A k \in Resources :
            LET native == {ep \in Returned : OwnedBy(ep, k) /\ IsNative(ep)}
                templated == {ep \in Returned : OwnedBy(ep, k) /\ IsTemplated(ep)}
            IN (native # {} /\ templated # {}) => TargetsOf(native) = TargetsOf(templated)

====
